---- MODULE Spec2Model ----
(***************************************************************************)
(* Model of packages/zed/src/lib.rs: the Zed extension that resolves which *)
(* wc-language-server executable to launch.  One resolution is the call    *)
(* language_server_command -> resolve_server_script ->                     *)
(* ensure_latest_language_server.  The call is cut into steps at its       *)
(* blocking calls (release feed query, download) and at its filesystem     *)
(* writes, so that an interruption between the download and the marker     *)
(* write, and two extension instances sharing one directory, can be        *)
(* expressed.  The filesystem is the only state kept across calls.         *)
(***************************************************************************)
EXTENDS Integers, Sequences, FiniteSets, TLC

(***************************************************************************)
(* Bounds of the model.                                                    *)
(***************************************************************************)
\* release tags the feed can publish: "1" .. "MaxVersion"
MaxVersion == 2

(***************************************************************************)
(* Paths and file names.  A file name is (stem, extension), "" standing    *)
(* for "no extension"; a path is (directory components, file name).        *)
(***************************************************************************)
Name(stem, ext) == [stem |-> stem, ext |-> ext]

MkPath(dir, file) == [dir |-> dir, file |-> file]

\* Path::join with a one-component relative path
join(dir, file) == MkPath(dir, file)

\* Path::parent
parent(path) == path.dir

\* Path::extension: None is modelled as ""
extension(path) == path.file.ext

NoPath == MkPath(<< >>, Name("", ""))

\* const GITHUB_REPO
GITHUB_REPO == "wc-toolkit/wc-language-server"

\* const JS_ASSET_NAME = "wc-language-server.js"
JS_ASSET_NAME == Name("wc-language-server", "js")

\* const SERVER_VERSION_MARKER = "server/bin/.release-version" (relative)
SERVER_VERSION_MARKER == MkPath(<<"server", "bin">>, Name(".release-version", ""))

\* const CUSTOM_SERVER_ENV
CUSTOM_SERVER_ENV == "WC_LANGUAGE_SERVER_BINARY"

\* env::current_dir(), canonicalized or raw: the same directory either way
ExtensionRoot == <<"extension">>

\* zed::node_binary_path() when it succeeds
NodeBinary == MkPath(<<"zed", "node", "bin">>, Name("node", ""))

\* the protocol-mode flag
StdioFlag == "--stdio"

(***************************************************************************)
(* Platform identification (env::consts::OS, env::consts::ARCH).           *)
(***************************************************************************)
OSes == {"windows", "macos", "linux", "freebsd"}

Archs == {"x86_64", "aarch64", "riscv64"}

\* the builds a behaviour runs as: one per kind of selection
Platforms ==
    { <<"windows", "x86_64">>, <<"macos", "aarch64">>, <<"linux", "x86_64">>,
      <<"freebsd", "x86_64">> }

\* fn server_asset_for_platform() -> (&'static str, bool)
server_asset_for_platform_native_fallback(OS, ARCH) ==
    CASE OS = "windows" -> <<Name("wc-language-server-windows-x64", "exe"), FALSE>>
      [] OS = "macos" ->
            IF ARCH = "aarch64"
            THEN <<Name("wc-language-server-macos-arm64", ""), FALSE>>
            ELSE <<Name("wc-language-server-macos-x64", ""), FALSE>>
      [] OS = "linux" ->
            IF ARCH = "aarch64"
            THEN <<Name("wc-language-server-linux-arm64", ""), FALSE>>
            ELSE <<Name("wc-language-server-linux-x64", ""), FALSE>>
      [] OTHER -> <<JS_ASSET_NAME, FALSE>>

server_asset_for_platform(OS, ARCH) ==
    CASE OS = "windows" -> <<Name("wc-language-server-windows-x64", "exe"), FALSE>>
      [] OS = "macos" ->
            IF ARCH = "aarch64"
            THEN <<Name("wc-language-server-macos-arm64", ""), FALSE>>
            ELSE <<Name("wc-language-server-macos-x64", ""), FALSE>>
      [] OS = "linux" ->
            IF ARCH = "aarch64"
            THEN <<Name("wc-language-server-linux-arm64", ""), FALSE>>
            ELSE <<Name("wc-language-server-linux-x64", ""), FALSE>>
      [] OTHER -> <<JS_ASSET_NAME, TRUE>>

\* fn is_node_script(path) -> bool
is_node_script(path) == extension(path) \in {"js", "cjs", "mjs"}

(***************************************************************************)
(* Text: a sequence of characters.  str::trim removes leading and trailing *)
(* whitespace.                                                             *)
(***************************************************************************)
Whitespace == {" ", "\n", "\t"}

RECURSIVE TrimStart(_)
TrimStart(s) ==
    IF s # << >> /\ Head(s) \in Whitespace THEN TrimStart(Tail(s)) ELSE s

RECURSIVE TrimEnd(_)
TrimEnd(s) ==
    IF s # << >> /\ s[Len(s)] \in Whitespace
    THEN TrimEnd(SubSeq(s, 1, Len(s) - 1))
    ELSE s

\* str::trim
trim(s) == TrimEnd(TrimStart(s))

\* the release tags of the feed, as text
Versions == { <<ToString(n)>> : n \in 1..MaxVersion }

(***************************************************************************)
(* The filesystem under the extension root: the files it holds and whether *)
(* server/bin exists.                                                      *)
(***************************************************************************)
NoFile == [kind |-> "none"]

\* a file written by zed::download_file from download_url
Binary(url, complete) == [kind |-> "bin", url |-> url, complete |-> complete]

TextFile(text) == [kind |-> "text", text |-> text]

\* Path::exists
exists(fs, path) == path \in DOMAIN fs /\ fs[path].kind # "none"

\* fs::read_to_string(path).ok(): <<TRUE, text>> or <<FALSE, _>>
read_to_string(fs, path) ==
    IF exists(fs, path) /\ fs[path].kind = "text"
    THEN <<TRUE, fs[path].text>>
    ELSE <<FALSE, << >> >>

\* extension_root.join("server/bin").join(preferred_asset)
ScriptPath(OS, ARCH) ==
    join(ExtensionRoot \o <<"server", "bin">>, server_asset_for_platform(OS, ARCH)[1])

\* extension_root.join(SERVER_VERSION_MARKER)
MarkerPath == MkPath(ExtensionRoot \o SERVER_VERSION_MARKER.dir, SERVER_VERSION_MARKER.file)

\* script.parent().join(JS_ASSET_NAME)
JsPath(script) == join(parent(script), JS_ASSET_NAME)

(***************************************************************************)
(* The release feed: zed::latest_github_release with require_assets.       *)
(***************************************************************************)
Asset(version, name) == [name |-> name, download_url |-> <<version, name>>]

NoAsset == [name |-> Name("", ""), download_url |-> << >>]

NoRelease == [version |-> << >>, assets |-> << >>]

\* an asset that no platform of this extension selects
ForeignAsset == Name("wc-language-server.d", "ts")

\* the asset lists a release may carry for a platform: every non-empty
\* ordered selection of the platform asset, the JS bundle and a foreign asset
AssetLists(OS, ARCH) ==
    LET p == server_asset_for_platform(OS, ARCH)[1]
        all == IF p = JS_ASSET_NAME
               THEN <<JS_ASSET_NAME, ForeignAsset>>
               ELSE <<p, JS_ASSET_NAME, ForeignAsset>>
        pick(S) == [i \in 1..Cardinality(S) |->
                      CHOOSE k \in S : Cardinality({j \in S : j < k}) = i - 1]
    IN { [i \in 1..Cardinality(S) |-> all[pick(S)[i]]] :
            S \in (SUBSET (1..Len(all))) \ {{}} }

Releases(OS, ARCH) ==
    { [version |-> v, assets |-> [i \in 1..Len(names) |-> Asset(v, names[i])]] :
        v \in Versions, names \in AssetLists(OS, ARCH) }

\* release.assets.iter().find(|asset| asset.name == name).cloned():
\* <<TRUE, asset>> or <<FALSE, _>>
find(assets, name) ==
    LET hits == {i \in 1..Len(assets) : assets[i].name = name}
    IN IF hits = {}
       THEN <<FALSE, NoAsset>>
       ELSE <<TRUE, assets[CHOOSE i \in hits : \A j \in hits : i <= j]>>

(***************************************************************************)
(* Results.  Result<(PathBuf, bool)> of resolve_server_script and          *)
(* Result<zed::Command> of language_server_command.  A failure carries the *)
(* kind of its message and the paths the message displays.                 *)
(***************************************************************************)
NoResult == [ok |-> FALSE, path |-> NoPath, requires_node |-> FALSE,
             err |-> "", names |-> {}]

Ok(path, requires_node) ==
    [ok |-> TRUE, path |-> path, requires_node |-> requires_node,
     err |-> "", names |-> {}]

Err(msg, names) ==
    [ok |-> FALSE, path |-> NoPath, requires_node |-> FALSE,
     err |-> msg, names |-> names]

PathArg(path) == [path |-> path, flag |-> ""]

FlagArg(flag) == [path |-> NoPath, flag |-> flag]

NoCommand == [ok |-> FALSE, command |-> NoPath, args |-> << >>, env |-> {},
              err |-> "", names |-> {}]

\* zed::Command { command, args, env: Default::default() }
Command(command, args) ==
    [ok |-> TRUE, command |-> command, args |-> args, env |-> {},
     err |-> "", names |-> {}]

CommandErr(msg, names) ==
    [ok |-> FALSE, command |-> NoPath, args |-> << >>, env |-> {},
     err |-> msg, names |-> names]

(***************************************************************************)
(* State.                                                                  *)
(***************************************************************************)
VARIABLES
    os,           \* env::consts::OS of the build
    arch,         \* env::consts::ARCH of the build
    fs,           \* the files under server/bin: path -> content
    bin_dir,      \* whether the directory server/bin exists
    pc,           \* per extension instance: position in language_server_command
    loc,          \* per instance: the local variables of the call in progress
    result,       \* per instance: what resolve_server_script returned
    command,      \* per instance: what language_server_command returned
    hist,         \* per instance: what the call in progress has done so far
    interrupted,  \* the last call that was cut short by a crash, until the next call
    past,         \* the last completed install, and whether the directory was
                  \* ever left by a crash or by a partly written download
    locator       \* the toolchain locator: its candidates, its memo, its last answer

vars ==
    <<os, arch, fs, bin_dir, pc, loc, result, command, hist, interrupted, past, locator>>

\* extension instances sharing the extension directory
Procs == {1, 2}

\* values WC_LANGUAGE_SERVER_BINARY may hold
OverridePaths ==
    { MkPath(<<"opt", "wc">>, Name("server", e)) : e \in {"", "js", "cjs", "mjs", "ts"} }

NoLoc ==
    [script |-> NoPath, version_marker |-> NoPath,
     preferred_asset |-> Name("", ""), preferred_requires_node |-> FALSE,
     release |-> NoRelease, asset |-> NoAsset, target_path |-> NoPath,
     requires_node |-> FALSE]

NotInterrupted == [active |-> FALSE, version |-> << >>, target |-> NoPath]

\* what a call remembers of the returned call of the same instance right
\* before it, when that call went as far as its marker write
NoPrev == [branch |-> "", release |-> NoRelease, path |-> NoPath, requires_node |-> FALSE]

\* the record of one call: the filesystem it started from, the override it
\* saw, its feed queries, downloads and marker writes, the branch it returned
\* through, the interrupted call (if any) that preceded it, and the returned
\* call right before it
NoHist ==
    [pre |-> << >>, pre_dir |-> FALSE, override |-> <<FALSE, NoPath>>, feed_queries |-> 0,
     feed_ok |-> FALSE, downloads |-> << >>, marker_writes |-> << >>,
     branch |-> "", after |-> NotInterrupted, prev |-> NoPrev]

(***************************************************************************)
(* ToolchainLocator (specification section 4.6).  Three candidates, each   *)
(* accepted only if its marker file is there, and a default that is not    *)
(* looked at.                                                              *)
(***************************************************************************)
Candidates == <<"override", "workspace", "bundle">>

DefaultToolchain == "default"

NoAnswer == [fresh |-> FALSE, configured |-> {}, valid |-> {}, path |-> "", warned |-> FALSE]

\* configured: the candidates that are given (an override set by the
\* operator, an open workspace; the installation root is always there);
\* valid: the candidates whose marker file exists; memo: the memoized answer
NoLocator == [configured |-> {"bundle"}, valid |-> {}, memo |-> "", last |-> NoAnswer]

NoInstall == [active |-> FALSE, path |-> NoPath, requires_node |-> FALSE]

\* installed: the last install that completed; dirty: a crash or a partly
\* written download has happened; unrecorded: a download was followed by a
\* marker write that failed
NoPast == [installed |-> NoInstall, dirty |-> FALSE, unrecorded |-> FALSE]

\* the directory as an installation made before this session left it: the
\* platform artifact of release "1" and a marker ending in a newline
LegacyInstall(OS, ARCH) ==
    LET script == ScriptPath(OS, ARCH)
        v == <<"1">>
    IN [p \in {script, JsPath(script), MarkerPath} |->
          IF p = script
          THEN Binary(Asset(v, server_asset_for_platform(OS, ARCH)[1]).download_url, TRUE)
          ELSE IF p = MarkerPath THEN TextFile(v \o <<"\n">>)
          ELSE NoFile]

EmptyInstall(OS, ARCH) ==
    LET script == ScriptPath(OS, ARCH)
    IN [p \in {script, JsPath(script), MarkerPath} |-> NoFile]

Init ==
    /\ \E pl \in Platforms : os = pl[1] /\ arch = pl[2]
    /\ \/ fs = EmptyInstall(os, arch) /\ bin_dir = FALSE
       \/ fs = LegacyInstall(os, arch) /\ bin_dir = TRUE
    /\ pc = [p \in Procs |-> "idle"]
    /\ loc = [p \in Procs |-> NoLoc]
    /\ result = [p \in Procs |-> NoResult]
    /\ command = [p \in Procs |-> NoCommand]
    /\ hist = [p \in Procs |-> NoHist]
    /\ interrupted = NotInterrupted
    /\ past = NoPast
    /\ locator = NoLocator

(***************************************************************************)
(* ensure_latest_language_server, lines 78-159: what to do with a release. *)
(***************************************************************************)
\* the marker read without the trim of line 95
current_version_untrimmed(files, version_marker) ==
    read_to_string(files, version_marker)

\* lines 93-95: fs::read_to_string(version_marker).ok().map(trim)
current_version(files, version_marker) ==
    LET r == read_to_string(files, version_marker)
    IN <<r[1], trim(r[2])>>

\* any marker that can be read counts as the release's tag
version_matches_any(cur, release) == cur[1]

\* current_version.as_deref().map(|version| version == release.version)
\*     .unwrap_or(false)
version_matches(cur, release) == cur[1] /\ cur[2] = release.version

\* lines 97-101
up_to_date(files, script, cur, release) ==
    exists(files, script) /\ version_matches(cur, release)

\* the check of lines 112-124 left out
js_up_to_date_never(files, js_path, cur, release) == FALSE

\* lines 112-116
js_up_to_date(files, js_path, cur, release) ==
    exists(files, js_path) /\ version_matches(cur, release)

Return(res, branch) ==
    [return |-> TRUE, result |-> res, branch |-> branch,
     asset |-> NoAsset, target_path |-> NoPath, requires_node |-> FALSE]

Install(asset, target_path, requires_node) ==
    [return |-> FALSE, result |-> NoResult, branch |-> "install",
     asset |-> asset, target_path |-> target_path, requires_node |-> requires_node]

\* the JS arm of line 138 tried before the existing-script arm of line 128
match_release_asset_js_first(files, script, js_path, preferred_asset, preferred_requires_node, release) ==
    LET preferred_release_asset == find(release.assets, preferred_asset)
        js_release_asset == find(release.assets, JS_ASSET_NAME)
    IN IF preferred_release_asset[1]
       THEN Install(preferred_release_asset[2], script, preferred_requires_node)
       ELSE IF js_release_asset[1]
       THEN Install(js_release_asset[2], js_path, TRUE)
       ELSE IF exists(files, script)
       THEN Return(Ok(script, preferred_requires_node), "stale")
       ELSE IF exists(files, js_path)
       THEN Return(Ok(js_path, TRUE), "stale_js")
       ELSE Return(Err("latest release is missing required assets", {script}),
                   "missing_assets")

\* lines 126-159: the match on preferred_release_asset
\* the arm of line 139 dropped: a JS bundle on disk is not used when the
\* release has no usable asset
match_release_asset_no_stale_js(files, script, js_path, preferred_asset, preferred_requires_node, release) ==
    LET preferred_release_asset == find(release.assets, preferred_asset)
        js_release_asset == find(release.assets, JS_ASSET_NAME)
    IN IF preferred_release_asset[1]
       THEN Install(preferred_release_asset[2], script, preferred_requires_node)
       ELSE IF exists(files, script)
       THEN Return(Ok(script, preferred_requires_node), "stale")
       ELSE IF js_release_asset[1]
       THEN Install(js_release_asset[2], js_path, TRUE)
       ELSE Return(Err("latest release is missing required assets", {script}),
                   "missing_assets")

match_release_asset(files, script, js_path, preferred_asset, preferred_requires_node, release) ==
    LET preferred_release_asset == find(release.assets, preferred_asset)
        js_release_asset == find(release.assets, JS_ASSET_NAME)
    IN IF preferred_release_asset[1]
       THEN Install(preferred_release_asset[2], script, preferred_requires_node)
       ELSE IF exists(files, script)
       THEN Return(Ok(script, preferred_requires_node), "stale")
       ELSE IF js_release_asset[1]
       THEN Install(js_release_asset[2], js_path, TRUE)
       ELSE IF exists(files, js_path)
       THEN Return(Ok(js_path, TRUE), "stale_js")
       ELSE Return(Err("latest release is missing required assets", {script}),
                   "missing_assets")

\* lines 78-159
select_asset(files, script, version_marker, preferred_asset, preferred_requires_node, release) ==
    LET js_path == JsPath(script)
        cur == current_version(files, version_marker)
    IN IF up_to_date(files, script, cur, release)
       THEN Return(Ok(script, preferred_requires_node), "cached")
       ELSE IF js_up_to_date(files, js_path, cur, release)
       THEN Return(Ok(js_path, TRUE), "cached_js")
       ELSE match_release_asset(files, script, js_path, preferred_asset,
                                preferred_requires_node, release)

(***************************************************************************)
(* Steps of one call of language_server_command by instance p.             *)
(***************************************************************************)
\* the override not consulted
custom_server_ignored(custom) == <<FALSE, NoResult>>

\* lines 15-18: env::var(CUSTOM_SERVER_ENV), <<present, value>>, ends the
\* resolution when it is present: <<terminal, result>>
custom_server(custom) ==
    IF custom[1]
    THEN <<TRUE, Ok(custom[2], is_node_script(custom[2]))>>
    ELSE <<FALSE, NoResult>>

\* lines 227-233 and 13-44: the call starts; resolve_server_script reads the
\* override and, without one, derives the script and marker paths
Start(p) ==
    /\ pc[p] \in {"idle", "done"}
    /\ \E custom \in {<<FALSE, NoPath>>} \cup { <<TRUE, o>> : o \in OverridePaths },
          cwd_ok \in BOOLEAN :
          LET sel == server_asset_for_platform(os, arch)
              over == custom_server(custom)
              prev == IF pc[p] = "done" /\ hist[p].branch \in {"installed", "marker_failed"}
                      THEN [branch |-> hist[p].branch, release |-> loc[p].release,
                            path |-> loc[p].target_path,
                            requires_node |-> loc[p].requires_node]
                      ELSE NoPrev
              h == [NoHist EXCEPT !.pre = fs, !.pre_dir = bin_dir,
                                  !.override = custom, !.after = interrupted,
                                  !.prev = prev]
          IN IF over[1]
             THEN /\ cwd_ok
                  /\ result' = [result EXCEPT ![p] = over[2]]
                  /\ hist' = [hist EXCEPT ![p] = [h EXCEPT !.branch = "override"]]
                  /\ loc' = [loc EXCEPT ![p] = NoLoc]
                  /\ pc' = [pc EXCEPT ![p] = "command"]
             ELSE IF ~cwd_ok
             THEN /\ result' = [result EXCEPT ![p] =
                                   Err("failed to resolve extension root", {})]
                  /\ hist' = [hist EXCEPT ![p] = [h EXCEPT !.branch = "no_root"]]
                  /\ loc' = [loc EXCEPT ![p] = NoLoc]
                  /\ pc' = [pc EXCEPT ![p] = "command"]
             ELSE /\ result' = [result EXCEPT ![p] = NoResult]
                  /\ hist' = [hist EXCEPT ![p] = h]
                  /\ loc' = [loc EXCEPT ![p] =
                               [NoLoc EXCEPT !.script = ScriptPath(os, arch),
                                             !.version_marker = MarkerPath,
                                             !.preferred_asset = sel[1],
                                             !.preferred_requires_node = sel[2]]]
                  /\ pc' = [pc EXCEPT ![p] = "feed"]
    /\ command' = [command EXCEPT ![p] = NoCommand]
    /\ interrupted' = NotInterrupted
    /\ UNCHANGED <<os, arch, fs, bin_dir, past, locator>>

\* the guard of line 61 dropped: a feed failure is always fatal
feed_failure_always_fatal(files, script, preferred_requires_node) ==
    Return(Err("unable to resolve language server release", {script}),
           "feed_failed_fatal")

\* a feed failure that also accepts the JS bundle next to the script
feed_failure_js_fallback(files, script, preferred_requires_node) ==
    IF exists(files, script)
    THEN Return(Ok(script, preferred_requires_node), "feed_failed_existing")
    ELSE IF exists(files, JsPath(script))
    THEN Return(Ok(JsPath(script), TRUE), "feed_failed_existing")
    ELSE Return(Err("unable to resolve language server release", {script}),
                "feed_failed_fatal")

\* lines 61-75: the two Err arms of the match on the feed's answer
feed_failure(files, script, preferred_requires_node) ==
    IF exists(files, script)
    THEN Return(Ok(script, preferred_requires_node), "feed_failed_existing")
    ELSE Return(Err("unable to resolve language server release", {script}),
                "feed_failed_fatal")

\* lines 53-76: zed::latest_github_release, and what its failure leads to
LatestRelease(p) ==
    /\ pc[p] = "feed"
    /\ \E feed \in {<<FALSE, NoRelease>>} \cup { <<TRUE, r>> : r \in Releases(os, arch) } :
          LET l == loc[p]
              h == [hist[p] EXCEPT !.feed_queries = @ + 1, !.feed_ok = feed[1]]
              f == feed_failure(fs, l.script, l.preferred_requires_node)
          IN IF feed[1]
             THEN /\ loc' = [loc EXCEPT ![p].release = feed[2]]
                  /\ hist' = [hist EXCEPT ![p] = h]
                  /\ pc' = [pc EXCEPT ![p] = "select"]
                  /\ UNCHANGED result
             ELSE /\ result' = [result EXCEPT ![p] = f.result]
                  /\ hist' = [hist EXCEPT ![p] = [h EXCEPT !.branch = f.branch]]
                  /\ pc' = [pc EXCEPT ![p] = "command"]
                  /\ UNCHANGED loc
    /\ UNCHANGED <<os, arch, fs, bin_dir, command, interrupted, past, locator>>

\* lines 78-159: cache checks and the choice of the asset to install
SelectAsset(p) ==
    /\ pc[p] = "select"
    /\ LET l == loc[p]
           s == select_asset(fs, l.script, l.version_marker, l.preferred_asset,
                             l.preferred_requires_node, l.release)
       IN IF s.return
          THEN /\ result' = [result EXCEPT ![p] = s.result]
               /\ hist' = [hist EXCEPT ![p].branch = s.branch]
               /\ pc' = [pc EXCEPT ![p] = "command"]
               /\ UNCHANGED loc
          ELSE /\ loc' = [loc EXCEPT ![p].asset = s.asset,
                                     ![p].target_path = s.target_path,
                                     ![p].requires_node = s.requires_node]
               /\ pc' = [pc EXCEPT ![p] = "mkdir"]
               /\ UNCHANGED <<result, hist>>
    /\ UNCHANGED <<os, arch, fs, bin_dir, command, interrupted, past, locator>>

\* lines 161-165: fs::create_dir_all(target_path.parent())
CreateDir(p) ==
    /\ pc[p] = "mkdir"
    /\ \E created \in BOOLEAN :
          IF created
          THEN /\ bin_dir' = TRUE
               /\ pc' = [pc EXCEPT ![p] = "download"]
               /\ UNCHANGED <<result, hist>>
          ELSE /\ result' = [result EXCEPT ![p] =
                                Err("failed to create language server directory",
                                    {MkPath(parent(loc[p].target_path), Name("", ""))})]
               /\ hist' = [hist EXCEPT ![p].branch = "mkdir_failed"]
               /\ pc' = [pc EXCEPT ![p] = "command"]
               /\ UNCHANGED bin_dir
    /\ UNCHANGED <<os, arch, fs, loc, command, interrupted, past, locator>>

\* the result of download_file dropped, as that of make_file_executable is
download_file_ignored(outcome) == "marker"

\* line 177: the `?` on download_file's result: where the call goes next
download_file_try(outcome) == IF outcome = "ok" THEN "marker" ELSE "command"

\* the download as it would be under a lock held from the download to the
\* marker write: it waits while another instance is between the two
DownloadFile_exclusive(p) ==
    /\ pc[p] = "download"
    /\ \A q \in Procs \ {p} : pc[q] # "marker"
    /\ \E outcome \in {"ok", "failed", "partial"} :
          LET l == loc[p]
              next == download_file_try(outcome)
              h == [hist[p] EXCEPT !.downloads =
                       Append(@, [target |-> l.target_path,
                                  url |-> l.asset.download_url,
                                  ok |-> outcome = "ok"])]
          IN /\ fs' = IF outcome = "failed" THEN fs
                      ELSE [fs EXCEPT ![l.target_path] =
                               Binary(l.asset.download_url, outcome = "ok")]
             /\ past' = [past EXCEPT !.dirty = @ \/ outcome = "partial"]
             /\ pc' = [pc EXCEPT ![p] = next]
             /\ IF next = "marker"
                THEN /\ hist' = [hist EXCEPT ![p] = h]
                     /\ UNCHANGED result
                ELSE /\ result' = [result EXCEPT ![p] = Err("download failed", {})]
                     /\ hist' = [hist EXCEPT ![p] = [h EXCEPT !.branch = "download_failed"]]
    /\ UNCHANGED <<os, arch, bin_dir, loc, command, interrupted, locator>>

\* lines 167-180: zed::download_file(asset.download_url, target_path); a
\* failed download leaves the target as it was or holds a part of the file.
\* Then make_file_executable, whose result is dropped (file modes are not
\* part of the state).
DownloadFile(p) ==
    /\ pc[p] = "download"
    /\ \E outcome \in {"ok", "failed", "partial"} :
          LET l == loc[p]
              next == download_file_try(outcome)
              h == [hist[p] EXCEPT !.downloads =
                       Append(@, [target |-> l.target_path,
                                  url |-> l.asset.download_url,
                                  ok |-> outcome = "ok"])]
          IN /\ fs' = IF outcome = "failed" THEN fs
                      ELSE [fs EXCEPT ![l.target_path] =
                               Binary(l.asset.download_url, outcome = "ok")]
             /\ past' = [past EXCEPT !.dirty = @ \/ outcome = "partial"]
             /\ pc' = [pc EXCEPT ![p] = next]
             /\ IF next = "marker"
                THEN /\ hist' = [hist EXCEPT ![p] = h]
                     /\ UNCHANGED result
                ELSE /\ result' = [result EXCEPT ![p] = Err("download failed", {})]
                     /\ hist' = [hist EXCEPT ![p] = [h EXCEPT !.branch = "download_failed"]]
    /\ UNCHANGED <<os, arch, bin_dir, loc, command, interrupted, locator>>

\* the tag written as a line
marker_contents_line(release) == release.version \o <<"\n">>

\* line 182: what fs::write puts into the marker
marker_contents(release) == release.version

\* lines 182-189: fs::write(version_marker, release.version), then Ok.  A
\* failed write leaves the marker as it was or truncated.
WriteMarker(p) ==
    /\ pc[p] = "marker"
    /\ \E outcome \in {"ok", "failed", "truncated"} :
          LET l == loc[p]
              h == [hist[p] EXCEPT !.marker_writes =
                       Append(@, [text |-> marker_contents(l.release), ok |-> outcome = "ok"])]
          IN /\ fs' = CASE outcome = "ok" ->
                             [fs EXCEPT ![l.version_marker] = TextFile(marker_contents(l.release))]
                        [] outcome = "truncated" ->
                             [fs EXCEPT ![l.version_marker] = TextFile(<< >>)]
                        [] OTHER -> fs
             /\ IF outcome = "ok"
                THEN /\ result' = [result EXCEPT ![p] = Ok(l.target_path, l.requires_node)]
                     /\ hist' = [hist EXCEPT ![p] = [h EXCEPT !.branch = "installed"]]
                     /\ past' = [past EXCEPT !.installed =
                                    [active |-> TRUE, path |-> l.target_path,
                                     requires_node |-> l.requires_node]]
                ELSE /\ result' = [result EXCEPT ![p] =
                                      Err("failed to record downloaded language server version",
                                          {l.version_marker})]
                     /\ hist' = [hist EXCEPT ![p] = [h EXCEPT !.branch = "marker_failed"]]
                     /\ past' = [past EXCEPT !.unrecorded = TRUE]
    /\ pc' = [pc EXCEPT ![p] = "command"]
    /\ UNCHANGED <<os, arch, bin_dir, loc, command, interrupted, locator>>

\* lines 233-247: the Command built from what resolve_server_script returned
build_command_flag_first(res, node) ==
    IF ~res.ok
    THEN CommandErr(res.err, res.names)
    ELSE IF res.requires_node
    THEN IF node[1]
         THEN Command(node[2], <<FlagArg(StdioFlag), PathArg(res.path)>>)
         ELSE CommandErr("node binary path unavailable", {})
    ELSE Command(res.path, <<FlagArg(StdioFlag)>>)

build_command(res, node) ==
    IF ~res.ok
    THEN CommandErr(res.err, res.names)
    ELSE IF res.requires_node
    THEN IF node[1]
         THEN Command(node[2], <<PathArg(res.path), FlagArg(StdioFlag)>>)
         ELSE CommandErr("node binary path unavailable", {})
    ELSE Command(res.path, <<FlagArg(StdioFlag)>>)

BuildCommand(p) ==
    /\ pc[p] = "command"
    /\ \E node \in {<<TRUE, NodeBinary>>, <<FALSE, NoPath>>} :
          /\ (~node[1]) => (result[p].ok /\ result[p].requires_node)
          /\ command' = [command EXCEPT ![p] = build_command(result[p], node)]
    /\ pc' = [pc EXCEPT ![p] = "done"]
    /\ UNCHANGED <<os, arch, fs, bin_dir, loc, result, hist, interrupted, past, locator>>

\* the editor process dies in the middle of a call; what the call wrote stays.
\* Dying inside download_file may leave a part of the file.  A call cut
\* short between its download and its marker write is remembered until the
\* next call starts.
Crash(p) ==
    /\ pc[p] \notin {"idle", "done"}
    /\ interrupted' = IF pc[p] = "marker"
                      THEN [active |-> TRUE, version |-> loc[p].release.version,
                            target |-> loc[p].target_path]
                      ELSE NotInterrupted
    /\ \E partial \in BOOLEAN :
          /\ partial => pc[p] = "download"
          /\ fs' = IF partial
                   THEN [fs EXCEPT ![loc[p].target_path] =
                            Binary(loc[p].asset.download_url, FALSE)]
                   ELSE fs
    /\ pc' = [pc EXCEPT ![p] = "idle"]
    /\ loc' = [loc EXCEPT ![p] = NoLoc]
    /\ result' = [result EXCEPT ![p] = NoResult]
    /\ command' = [command EXCEPT ![p] = NoCommand]
    /\ hist' = [hist EXCEPT ![p] = NoHist]
    /\ past' = [past EXCEPT !.dirty = TRUE]
    /\ UNCHANGED <<os, arch, bin_dir, locator>>

Step(p) ==
    \/ Start(p)
    \/ LatestRelease(p)
    \/ SelectAsset(p)
    \/ CreateDir(p)
    \/ DownloadFile(p)
    \/ WriteMarker(p)
    \/ BuildCommand(p)
    \/ Crash(p)

\* one extension instance: the host calls language_server_command once per
\* server start, one call after the other
Next == Step(1)

Spec == Init /\ [][Next]_vars

(***************************************************************************)
(* ToolchainLocator: the resolution chain of section 4.6.                  *)
(***************************************************************************)
RECURSIVE first_validated(_, _, _)
\* the first candidate from position i on that is given and whose marker
\* file exists; the default when there is none
first_validated(i, configured, valid) ==
    IF i > Len(Candidates)
    THEN DefaultToolchain
    ELSE IF Candidates[i] \in configured /\ Candidates[i] \in valid
    THEN Candidates[i]
    ELSE first_validated(i + 1, configured, valid)

\* the candidates tried from the installation root upwards
locate_toolchain_bundle_first(memo, configured, valid) ==
    IF memo # ""
    THEN memo
    ELSE IF "bundle" \in valid
    THEN "bundle"
    ELSE first_validated(1, configured, valid)

\* the memoized answer if there is one, else the chain in its fixed order
locate_toolchain(memo, configured, valid) ==
    IF memo # ""
    THEN memo
    ELSE first_validated(1, configured, valid)

\* one resolution: a validated answer is memoized, the default is returned
\* unvalidated with a warning and is not
Locate ==
    /\ LET path == locate_toolchain(locator.memo, locator.configured, locator.valid)
       IN locator' =
             [locator EXCEPT
                !.memo = IF path = DefaultToolchain THEN locator.memo ELSE path,
                !.last = [fresh |-> locator.memo = "",
                          configured |-> locator.configured,
                          valid |-> locator.valid,
                          path |-> path,
                          warned |-> path = DefaultToolchain]]
    /\ UNCHANGED <<os, arch, fs, bin_dir, pc, loc, result, command, hist, interrupted, past>>

\* the files under a candidate appear or go away between resolutions
MarkerFileChange ==
    /\ \E c \in {Candidates[i] : i \in 1..Len(Candidates)} :
          locator' = [locator EXCEPT !.valid = IF c \in @ THEN @ \ {c} ELSE @ \cup {c}]
    /\ UNCHANGED <<os, arch, fs, bin_dir, pc, loc, result, command, hist, interrupted, past>>

InitToolchain ==
    /\ os = "linux"
    /\ arch = "x86_64"
    /\ fs = EmptyInstall(os, arch)
    /\ bin_dir = FALSE
    /\ pc = [p \in Procs |-> "idle"]
    /\ loc = [p \in Procs |-> NoLoc]
    /\ result = [p \in Procs |-> NoResult]
    /\ command = [p \in Procs |-> NoCommand]
    /\ hist = [p \in Procs |-> NoHist]
    /\ interrupted = NotInterrupted
    /\ past = NoPast
    /\ \E configured \in SUBSET {"override", "workspace"} :
          locator = [NoLocator EXCEPT !.configured = configured \cup {"bundle"}]

NextToolchain == Locate \/ MarkerFileChange

SpecToolchain == InitToolchain /\ [][NextToolchain]_vars

(***************************************************************************)
(* The selection of lines 192-211 over every build: the extension started  *)
(* once on any operating system and architecture, making one call.         *)
(***************************************************************************)
InitAnyPlatform ==
    /\ os \in OSes
    /\ arch \in Archs
    /\ \/ fs = EmptyInstall(os, arch) /\ bin_dir = FALSE
       \/ fs = LegacyInstall(os, arch) /\ bin_dir = TRUE
    /\ pc = [p \in Procs |-> "idle"]
    /\ loc = [p \in Procs |-> NoLoc]
    /\ result = [p \in Procs |-> NoResult]
    /\ command = [p \in Procs |-> NoCommand]
    /\ hist = [p \in Procs |-> NoHist]
    /\ interrupted = NotInterrupted
    /\ past = NoPast
    /\ locator = NoLocator

\* the first call of an instance
FirstCall(p) == pc[p] = "idle" /\ Start(p)

\* one call of language_server_command, run to its return
Call(p) ==
    \/ FirstCall(p)
    \/ LatestRelease(p)
    \/ SelectAsset(p)
    \/ CreateDir(p)
    \/ DownloadFile(p)
    \/ WriteMarker(p)
    \/ BuildCommand(p)

NextAnyPlatform == Call(1)

SpecAnyPlatform == InitAnyPlatform /\ [][NextAnyPlatform]_vars

(***************************************************************************)
(* Two extension instances (two processes of the host) on the same         *)
(* installation root, each making one call; their steps interleave freely, *)
(* as nothing in lines 46-190 takes a lock.                                *)
(***************************************************************************)
NextTwo == \E p \in Procs : Call(p)

SpecTwo == Init /\ [][NextTwo]_vars

(***************************************************************************)
(* Properties.  A call has returned when its instance is at "done"; hist   *)
(* then holds what the call did and loc the release it consulted.          *)
(***************************************************************************)
Returned(p) == pc[p] = "done"

\* the call went past the override step and asked the feed
Consulted(p) == Returned(p) /\ ~hist[p].override[1] /\ hist[p].feed_queries = 1

\* ... and the feed answered with a release
GotRelease(p) == Consulted(p) /\ hist[p].feed_ok

ExpectedScript == ScriptPath(os, arch)

ExpectedJs == JsPath(ExpectedScript)

PlatformMode == server_asset_for_platform(os, arch)[2]

PlatformAsset == server_asset_for_platform(os, arch)[1]

\* the marker as the call found it, trimmed: <<present, text>>
MarkerBefore(p) ==
    IF hist[p].pre[MarkerPath].kind = "text"
    THEN <<TRUE, trim(hist[p].pre[MarkerPath].text)>>
    ELSE <<FALSE, << >> >>

NothingWritten(p) ==
    /\ hist[p].downloads = << >>
    /\ hist[p].marker_writes = << >>
    /\ fs = hist[p].pre
    /\ bin_dir = hist[p].pre_dir

InRelease(name, release) ==
    \E i \in 1..Len(release.assets) : release.assets[i].name = name

\* C1: cache hit.  In a call without override whose feed query returned a
\* release, if a file was at the expected binary path and the trimmed marker
\* equalled the release's version tag, the call made no download and no
\* marker write, left the directory as it was and returned the expected
\* path with the platform-selected execution mode.
C1_CacheHit ==
    \A p \in Procs :
        ( /\ GotRelease(p)
          /\ exists(hist[p].pre, ExpectedScript)
          /\ MarkerBefore(p) = <<TRUE, loc[p].release.version>> )
        => /\ NothingWritten(p)
           /\ result[p] = Ok(ExpectedScript, PlatformMode)

\* a cache hit on a marker that carries a trailing newline
C1_Witness ==
    \E p \in Procs :
        /\ GotRelease(p)
        /\ exists(hist[p].pre, ExpectedScript)
        /\ MarkerBefore(p) = <<TRUE, loc[p].release.version>>
        /\ hist[p].pre[MarkerPath].text # loc[p].release.version
        /\ result[p].ok

\* C2: if the feed query fails and a file is at the expected binary path,
\* the resolver returns that path with the platform-selected mode, as a
\* success; nothing is downloaded and the marker and the rest of the
\* directory are as before.
C2_FeedFailsBinaryExists ==
    \A p \in Procs :
        ( /\ Consulted(p)
          /\ ~hist[p].feed_ok
          /\ exists(hist[p].pre, ExpectedScript) )
        => /\ result[p] = Ok(ExpectedScript, PlatformMode)
           /\ NothingWritten(p)
           /\ fs[MarkerPath] = hist[p].pre[MarkerPath]

C2_Witness ==
    \E p \in Procs :
        /\ Consulted(p)
        /\ ~hist[p].feed_ok
        /\ exists(hist[p].pre, ExpectedScript)
        /\ hist[p].pre[MarkerPath].kind = "text"
        /\ result[p].ok

\* C3: if the feed query fails and no file is at the expected binary path,
\* the resolution fails, its message names the expected binary path, and
\* language_server_command returns that failure without building a Command.
C3_FeedFailsNoBinary ==
    \A p \in Procs :
        ( /\ Consulted(p)
          /\ ~hist[p].feed_ok
          /\ ~exists(hist[p].pre, ExpectedScript) )
        => /\ ~result[p].ok
           /\ ExpectedScript \in result[p].names
           /\ command[p] = CommandErr(result[p].err, result[p].names)
           /\ NothingWritten(p)

\* the feed fails while only the JS bundle of an earlier install is on disk
C3_Witness ==
    \E p \in Procs :
        /\ Consulted(p)
        /\ ~hist[p].feed_ok
        /\ ~exists(hist[p].pre, ExpectedScript)
        /\ exists(hist[p].pre, ExpectedJs)
        /\ ~command[p].ok
        /\ command[p].command = NoPath

\* C4: the marker is written only after the download of the same call has
\* succeeded: a call whose download failed wrote no marker and leaves the
\* marker as it found it, and every marker write of a call follows a
\* successful download of that call.
C4_MarkerOnlyAfterDownload ==
    \A p \in Procs :
        /\ ( /\ hist[p].downloads # << >>
             /\ ~hist[p].downloads[Len(hist[p].downloads)].ok )
           => /\ hist[p].marker_writes = << >>
              /\ fs[MarkerPath] = hist[p].pre[MarkerPath]
        /\ hist[p].marker_writes # << >>
           => \E i \in 1..Len(hist[p].downloads) : hist[p].downloads[i].ok

\* a call has returned after a failed download over an install with a marker
C4_Witness ==
    \E p \in Procs :
        /\ Returned(p)
        /\ hist[p].downloads # << >>
        /\ ~hist[p].downloads[1].ok
        /\ hist[p].pre[MarkerPath].kind = "text"
        /\ ~result[p].ok

\* C5: with an override present the resolution ends at the override step:
\* the override path is returned as given, the feed is not queried, nothing
\* is downloaded, and the directory and the marker are as before, whatever
\* they hold.
C5_OverrideTerminal ==
    \A p \in Procs :
        (Returned(p) /\ hist[p].override[1])
        => /\ result[p].ok
           /\ result[p].path = hist[p].override[2]
           /\ hist[p].feed_queries = 0
           /\ NothingWritten(p)

\* an override used over a directory that holds an installed binary
C5_Witness ==
    \E p \in Procs :
        /\ Returned(p)
        /\ hist[p].override[1]
        /\ exists(fs, ExpectedScript)
        /\ command[p].ok

\* the two cache checks of lines 97-124, on the directory as the call found it
CacheHit(p) ==
    /\ MarkerBefore(p) = <<TRUE, loc[p].release.version>>
    /\ exists(hist[p].pre, ExpectedScript) \/ exists(hist[p].pre, ExpectedJs)

\* the call chose to install the JS bundle of its release at the JS path, and
\* if it succeeded it made one download there, wrote the release's tag to
\* the marker and returned the JS path to be run by the host runtime
AttemptedJs(p) ==
    /\ loc[p].asset = Asset(loc[p].release.version, JS_ASSET_NAME)
    /\ loc[p].target_path = ExpectedJs
    /\ result[p].ok
       => /\ result[p] = Ok(ExpectedJs, TRUE)
          /\ hist[p].downloads =
                <<[target |-> ExpectedJs, url |-> loc[p].asset.download_url, ok |-> TRUE]>>
          /\ fs[MarkerPath] = TextFile(loc[p].release.version)

\* no cache hit, and the release has the JS bundle but not the platform asset
OnlyJsInRelease(p) ==
    /\ GotRelease(p)
    /\ ~CacheHit(p)
    /\ ~InRelease(PlatformAsset, loc[p].release)
    /\ InRelease(JS_ASSET_NAME, loc[p].release)

InstallFailed(p) ==
    \/ hist[p].downloads # << >> /\ ~hist[p].downloads[Len(hist[p].downloads)].ok
    \/ hist[p].marker_writes # << >>
       /\ ~hist[p].marker_writes[Len(hist[p].marker_writes)].ok

\* C6 as claimed: if the download or the marker write of a call fails while
\* a binary was on disk at the expected path, the resolution succeeds with
\* that binary; it fails only when no binary was on disk.
C6_InstallFailureFallsBack ==
    \A p \in Procs :
        ( /\ GotRelease(p)
          /\ InstallFailed(p)
          /\ exists(hist[p].pre, ExpectedScript) )
        => /\ result[p].ok
           /\ result[p].path = ExpectedScript

\* C7 as claimed: without a cache hit, when the release lacks the platform
\* asset but has the JS bundle, the resolver attempts the JS bundle.
C7_FallbackAttempted ==
    \A p \in Procs : OnlyJsInRelease(p) => AttemptedJs(p)

\* C7 as amended: without a cache hit, when the release lacks the platform
\* asset but has the JS bundle, the resolver attempts the JS bundle only if
\* no file is at the expected binary path; if one is, it is returned with
\* the platform-selected mode and nothing is downloaded or written.
C7_FallbackUnlessScriptExists ==
    \A p \in Procs :
        OnlyJsInRelease(p)
        => IF exists(hist[p].pre, ExpectedScript)
           THEN result[p] = Ok(ExpectedScript, PlatformMode) /\ NothingWritten(p)
           ELSE AttemptedJs(p)

\* a stale platform binary is kept although the release has the JS bundle
C7_Witness ==
    \E p \in Procs :
        /\ OnlyJsInRelease(p)
        /\ exists(hist[p].pre, ExpectedScript)
        /\ result[p].ok

\* the other case of C7: the JS bundle installed where no binary was
C7_WitnessInstalled ==
    \E p \in Procs :
        /\ OnlyJsInRelease(p)
        /\ ~exists(hist[p].pre, ExpectedScript)
        /\ result[p].ok

\* C8 as claimed: a successful call that consulted a release returns the JS
\* bundle only if the platform asset is absent from that release or the
\* platform is unrecognized; when the release has both, the platform binary
\* is the one returned.
C8_NativePreferred ==
    \A p \in Procs :
        (GotRelease(p) /\ result[p].ok /\ result[p].path = ExpectedJs)
        => \/ ~InRelease(PlatformAsset, loc[p].release)
           \/ PlatformMode

\* C9 as claimed: in the call that follows one cut short between its
\* download and its marker write, the marker is absent or differs from the
\* release's tag and the call does not return through a cache hit.
C9_InterruptedInstallDetected ==
    \A p \in Procs :
        (GotRelease(p) /\ hist[p].after.active)
        => /\ MarkerBefore(p) # <<TRUE, loc[p].release.version>>
           /\ hist[p].branch \notin {"cached", "cached_js"}

\* the part of C9 the code does guarantee: when the call that follows the
\* interrupted one obtains the release that was being installed, the marker
\* differs from its tag and the call does not return through a cache hit
C9_SameReleaseDetected ==
    \A p \in Procs :
        ( /\ GotRelease(p)
          /\ hist[p].after.active
          /\ loc[p].release.version = hist[p].after.version )
        => /\ MarkerBefore(p) # <<TRUE, loc[p].release.version>>
           /\ hist[p].branch \notin {"cached", "cached_js"}

\* every download and every marker write of the call succeeded
AllStepsOk(p) ==
    /\ hist[p].downloads # << >>
    /\ \A i \in 1..Len(hist[p].downloads) : hist[p].downloads[i].ok
    /\ hist[p].marker_writes # << >>
    /\ \A i \in 1..Len(hist[p].marker_writes) : hist[p].marker_writes[i].ok

\* no override, a recognized platform, nothing of this release on disk and no
\* file at the expected path, and a release that has the platform asset
FreshInstall(p) ==
    /\ GotRelease(p)
    /\ ~PlatformMode
    /\ ~exists(hist[p].pre, ExpectedScript)
    /\ ~CacheHit(p)
    /\ InRelease(PlatformAsset, loc[p].release)

\* C10: fresh install.  The call sets out to install the platform asset at
\* the expected path; if all its steps succeed it has made exactly one
\* download, to that path, the marker holds exactly the release's tag, and
\* the command is the downloaded path itself with --stdio as only argument.
C10_FreshInstall ==
    \A p \in Procs :
        FreshInstall(p)
        => /\ loc[p].asset = Asset(loc[p].release.version, PlatformAsset)
           /\ loc[p].target_path = ExpectedScript
           /\ AllStepsOk(p)
              => /\ hist[p].downloads =
                      <<[target |-> ExpectedScript,
                         url |-> loc[p].asset.download_url, ok |-> TRUE]>>
                 /\ fs[MarkerPath] = TextFile(loc[p].release.version)
                 /\ fs[ExpectedScript] = Binary(loc[p].asset.download_url, TRUE)
                 /\ result[p] = Ok(ExpectedScript, FALSE)
                 /\ command[p] = Command(ExpectedScript, <<FlagArg(StdioFlag)>>)

\* a first install into an empty directory has returned its command
C10_Witness ==
    \E p \in Procs :
        /\ FreshInstall(p)
        /\ AllStepsOk(p)
        /\ hist[p].pre = EmptyInstall(os, arch)
        /\ command[p].ok

\* C11: every command that is returned has the stdio flag as its last
\* argument and an empty environment.  When the resolved artifact requires
\* the host runtime, the command is the host's runtime binary and the
\* artifact path is the first of exactly two arguments; otherwise the
\* command is the artifact path itself and the flag is the only argument.
C11_CommandShape ==
    \A p \in Procs :
        (Returned(p) /\ command[p].ok)
        => /\ result[p].ok
           /\ command[p].args # << >>
           /\ command[p].args[Len(command[p].args)] = FlagArg(StdioFlag)
           /\ command[p].env = {}
           /\ IF result[p].requires_node
              THEN /\ command[p].command = NodeBinary
                   /\ command[p].args = <<PathArg(result[p].path), FlagArg(StdioFlag)>>
              ELSE /\ command[p].command = result[p].path
                   /\ command[p].args = <<FlagArg(StdioFlag)>>

\* a command built to run a JS bundle that the call has just installed
C11_Witness ==
    \E p \in Procs :
        /\ Returned(p)
        /\ command[p].ok
        /\ result[p].requires_node
        /\ hist[p].branch = "installed"
        /\ command[p].command = NodeBinary

\* the other case of C11: a command that runs a platform binary directly
C11_WitnessNative ==
    \E p \in Procs :
        /\ Returned(p)
        /\ command[p].ok
        /\ ~result[p].requires_node
        /\ ~hist[p].override[1]
        /\ Len(command[p].args) = 1

\* the selection of the build that is running
Selection == server_asset_for_platform(os, arch)

\* the call has computed its selection (line 23)
Selected(p) == pc[p] # "idle" /\ loc[p] # NoLoc

\* the (OS, architecture) pairs that the asset names of lines 194-208 stand for
SupportedPairs ==
    { <<"windows", "x86_64">>, <<"macos", "aarch64">>, <<"macos", "x86_64">>,
      <<"linux", "aarch64">>, <<"linux", "x86_64">> }

RecognizedOSes == {"windows", "macos", "linux"}

\* C12 as claimed: for every supported (OS, architecture) pair the selection
\* is a non-empty asset name with an execution mode, and for every pair that
\* is not one of them it is the universal JS bundle run by the host runtime.
C12_UnrecognizedPairFallsBack ==
    \A p \in Procs :
        Selected(p)
        => /\ loc[p].preferred_asset.stem # ""
           /\ loc[p].preferred_requires_node \in BOOLEAN
           /\ <<os, arch>> \notin SupportedPairs
              => /\ loc[p].preferred_asset = JS_ASSET_NAME
                 /\ loc[p].preferred_requires_node

\* C12 as amended: the selection is total, always a non-empty asset name
\* with an execution mode, and the same whenever it is computed on the same
\* build.  The operating system alone decides whether the build is
\* recognized: on windows, macos and linux the selection is a platform
\* binary run directly, whatever the architecture (aarch64 selects the
\* arm64 asset where there is one, every other architecture the x64 asset);
\* on every other operating system it is the universal JS bundle, run by
\* the host runtime.
C12_SelectionByOS ==
    \A p \in Procs :
        Selected(p)
        => /\ loc[p].preferred_asset.stem # ""
           /\ loc[p].preferred_requires_node \in BOOLEAN
           /\ <<loc[p].preferred_asset, loc[p].preferred_requires_node>> = Selection
           /\ IF os \in RecognizedOSes
              THEN /\ ~loc[p].preferred_requires_node
                   /\ loc[p].preferred_asset # JS_ASSET_NAME
                   /\ <<os, arch>> \notin SupportedPairs
                      => loc[p].preferred_asset =
                            server_asset_for_platform(os, "x86_64")[1]
              ELSE /\ loc[p].preferred_asset = JS_ASSET_NAME
                   /\ loc[p].preferred_requires_node

\* a call on an unrecognized operating system has selected the JS bundle
C12_Witness ==
    \E p \in Procs :
        /\ Selected(p)
        /\ os \notin RecognizedOSes
        /\ loc[p].preferred_asset = JS_ASSET_NAME
        /\ pc[p] = "done"

\* a call on linux/riscv64 has selected the x64 binary of linux
C12_WitnessUnknownArch ==
    \E p \in Procs :
        /\ Selected(p)
        /\ os = "linux"
        /\ arch = "riscv64"
        /\ loc[p].preferred_asset = Name("wc-language-server-linux-x64", "")
        /\ pc[p] = "done"

\* the candidates that are given and validate, as the last resolution found them
Validated(c) == c \in locator.last.configured /\ c \in locator.last.valid

\* C13: a resolution that is not answered from the memo returns the first
\* validated candidate in the order override, workspace, bundle.  With the
\* workspace and the bundle candidate both valid and no valid override it
\* returns the workspace one; when no candidate validates it returns the
\* hardcoded default, unvalidated and with a warning, instead of failing.
C13_ResolutionOrder ==
    locator.last.fresh
    => /\ Validated("override") => locator.last.path = "override"
       /\ (~Validated("override") /\ Validated("workspace"))
          => locator.last.path = "workspace"
       /\ (~Validated("override") /\ ~Validated("workspace") /\ Validated("bundle"))
          => locator.last.path = "bundle"
       /\ (~Validated("override") /\ ~Validated("workspace") /\ ~Validated("bundle"))
          => /\ locator.last.path = DefaultToolchain
             /\ locator.last.warned
       /\ locator.last.path # ""

\* workspace and bundle both valid, no valid override: the workspace one
C13_Witness ==
    /\ locator.last.fresh
    /\ ~Validated("override")
    /\ Validated("workspace")
    /\ Validated("bundle")
    /\ locator.last.path = "workspace"

\* the other case of C13: nothing validates and the default is returned
C13_WitnessDefault ==
    /\ locator.last.fresh
    /\ locator.last.configured = {"override", "workspace", "bundle"}
    /\ locator.last.valid = {}
    /\ locator.last.path = DefaultToolchain

\* C14 as claimed: once a resolution has installed an artifact (the platform
\* binary or the JS bundle), a later resolution whose feed query fails
\* succeeds and returns that artifact with the mode it was installed with.
C14_InstalledSurvivesFeedFailure ==
    \A p \in Procs :
        ( /\ Consulted(p)
          /\ ~hist[p].feed_ok
          /\ past.installed.active )
        => result[p] = Ok(past.installed.path, past.installed.requires_node)

\* the part of C14 the code does guarantee: after an install of the
\* platform binary, or of the JS bundle on a build whose expected path is
\* the JS path, a later resolution whose feed query fails returns it
C14_InstalledAtScriptSurvives ==
    \A p \in Procs :
        ( /\ Consulted(p)
          /\ ~hist[p].feed_ok
          /\ past.installed.active
          /\ past.installed.path = ExpectedScript )
        => result[p] = Ok(past.installed.path, past.installed.requires_node)

\* the release has neither the platform asset nor the JS bundle
NoUsableAsset(p) ==
    /\ GotRelease(p)
    /\ ~InRelease(PlatformAsset, loc[p].release)
    /\ ~InRelease(JS_ASSET_NAME, loc[p].release)

\* C15: when the release has neither the platform asset nor the JS bundle,
\* a call that found a binary on disk (at the expected path, else at the JS
\* path) succeeds with that binary, downloads nothing and leaves the marker
\* and the directory as they were; a call that found none fails and has
\* written nothing.
C15_NoUsableAsset ==
    \A p \in Procs :
        NoUsableAsset(p)
        => /\ NothingWritten(p)
           /\ fs[MarkerPath] = hist[p].pre[MarkerPath]
           /\ IF exists(hist[p].pre, ExpectedScript)
              THEN result[p] = Ok(ExpectedScript, PlatformMode)
              ELSE IF exists(hist[p].pre, ExpectedJs)
              THEN result[p] = Ok(ExpectedJs, TRUE)
              ELSE /\ ~result[p].ok
                   /\ ~command[p].ok

\* a JS bundle of another release is kept when the release has no usable asset
C15_Witness ==
    \E p \in Procs :
        /\ NoUsableAsset(p)
        /\ ~exists(hist[p].pre, ExpectedScript)
        /\ exists(hist[p].pre, ExpectedJs)
        /\ ~CacheHit(p)
        /\ result[p].ok

\* the other case of C15: nothing on disk, the resolution fails
C15_WitnessFatal ==
    \E p \in Procs :
        /\ NoUsableAsset(p)
        /\ ~exists(hist[p].pre, ExpectedScript)
        /\ ~exists(hist[p].pre, ExpectedJs)
        /\ ~result[p].ok
        /\ hist[p].branch = "missing_assets"

\* the call's marker write failed
MarkerWriteFailed(p) ==
    /\ hist[p].marker_writes # << >>
    /\ ~hist[p].marker_writes[Len(hist[p].marker_writes)].ok

\* the call obtained the release whose marker write had failed in the
\* returned call right before it
AfterMarkerFailure(p) ==
    /\ GotRelease(p)
    /\ hist[p].prev.branch = "marker_failed"
    /\ loc[p].release = hist[p].prev.release

\* C16: a marker write that fails after a successful download makes the
\* resolution return a failure, and no Command.  The next resolution, when
\* it obtains the same release, finds the marker different from the
\* release's tag, does not return through a cache hit and sets out to
\* install the same asset at the same path again: unless creating the
\* directory fails, it downloads that asset again.
C16_MarkerFailureRetried ==
    \A p \in Procs :
        /\ (Returned(p) /\ MarkerWriteFailed(p))
           => /\ hist[p].downloads[Len(hist[p].downloads)].ok
              /\ ~result[p].ok
              /\ ~command[p].ok
        /\ AfterMarkerFailure(p)
           => /\ MarkerBefore(p) # <<TRUE, loc[p].release.version>>
              /\ hist[p].branch \notin {"cached", "cached_js"}
              /\ loc[p].target_path = hist[p].prev.path
              /\ loc[p].requires_node = hist[p].prev.requires_node
              /\ \/ hist[p].branch = "mkdir_failed"
                 \/ /\ hist[p].downloads # << >>
                    /\ hist[p].downloads[1].target = hist[p].prev.path
                    /\ hist[p].downloads[1].url = loc[p].asset.download_url

\* after a failed marker write over an older install, the next call
\* obtains the same release, downloads again and completes the install
C16_Witness ==
    \E p \in Procs :
        /\ AfterMarkerFailure(p)
        /\ hist[p].pre[MarkerPath].kind = "text"
        /\ exists(hist[p].pre, hist[p].prev.path)
        /\ hist[p].downloads # << >>
        /\ hist[p].branch = "installed"

\* the call obtained the release that the returned call right before it
\* had installed
AfterInstall(p) ==
    /\ GotRelease(p)
    /\ hist[p].prev.branch = "installed"
    /\ loc[p].release = hist[p].prev.release

\* C17: a resolution that directly follows one that succeeded by installing
\* an artifact (the platform binary or the JS bundle), and obtains the same
\* release, makes no download and no marker write, leaves the marker and
\* the directory as they were and returns the same path and mode.
C17_Idempotent ==
    \A p \in Procs :
        AfterInstall(p)
        => /\ hist[p].downloads = << >>
           /\ NothingWritten(p)
           /\ fs[MarkerPath] = hist[p].pre[MarkerPath]
           /\ fs[MarkerPath] = TextFile(loc[p].release.version)
           /\ result[p] = Ok(hist[p].prev.path, hist[p].prev.requires_node)

\* the call after an install of the JS bundle next to an absent platform
\* binary returns the bundle again
C17_Witness ==
    \E p \in Procs :
        /\ AfterInstall(p)
        /\ hist[p].prev.path = ExpectedJs
        /\ ExpectedJs # ExpectedScript
        /\ result[p].ok
        /\ result[p].requires_node

\* the other case of C17: the call after an install of the platform binary
C17_WitnessNative ==
    \E p \in Procs :
        /\ AfterInstall(p)
        /\ hist[p].prev.path = ExpectedScript
        /\ ~hist[p].prev.requires_node
        /\ result[p].ok

\* C18 as claimed: over sequential calls without override, with no crash and
\* no partly written download so far, whenever a resolution returns through a
\* cache hit for the version of its release (at the platform path or at the
\* JS path), the file at the returned path is a complete download from that
\* release.
C18_CacheHitIsReleaseArtifact ==
    \A p \in Procs :
        ( /\ GotRelease(p)
          /\ ~past.dirty
          /\ hist[p].branch \in {"cached", "cached_js"} )
        => /\ fs[result[p].path].kind = "bin"
           /\ fs[result[p].path].complete
           /\ fs[result[p].path].url[1] = loc[p].release.version

\* the part of C18 the code does guarantee: with, in addition, no failed
\* marker write so far, the file returned through a cache hit is a complete
\* download from the release of the call
C18_CacheHitAfterRecordedInstalls ==
    \A p \in Procs :
        ( /\ GotRelease(p)
          /\ ~past.dirty
          /\ ~past.unrecorded
          /\ hist[p].branch \in {"cached", "cached_js"} )
        => /\ fs[result[p].path].kind = "bin"
           /\ fs[result[p].path].complete
           /\ fs[result[p].path].url[1] = loc[p].release.version

\* C19: every successful resolution without override returns a path at
\* which a file exists when it returns, and its requires-host-runtime flag
\* is true exactly when that path is the path of the universal JS bundle.
C19_ReturnedPathAndMode ==
    \A p \in Procs :
        (Returned(p) /\ ~hist[p].override[1] /\ result[p].ok)
        => /\ exists(fs, result[p].path)
           /\ result[p].path \in {ExpectedScript, ExpectedJs}
           /\ result[p].requires_node <=> result[p].path = ExpectedJs

\* on a build without a platform binary the expected path is the JS path,
\* and a cache hit there is returned with the host runtime
C19_Witness ==
    \E p \in Procs :
        /\ Returned(p)
        /\ ~hist[p].override[1]
        /\ result[p].ok
        /\ ExpectedScript = ExpectedJs
        /\ hist[p].branch = "cached"
        /\ result[p].requires_node

\* the other case of C19: a stale platform binary, run directly
C19_WitnessNative ==
    \E p \in Procs :
        /\ Returned(p)
        /\ ~hist[p].override[1]
        /\ result[p].ok
        /\ hist[p].branch = "stale"
        /\ result[p].path # ExpectedJs
        /\ ~result[p].requires_node

\* no call is in progress
AtRest == \A p \in Procs : pc[p] \in {"idle", "done"}

\* the file that a cache check would return: the platform binary if there
\* is one, else the JS bundle
InstalledFile == IF exists(fs, ExpectedScript) THEN ExpectedScript ELSE ExpectedJs

\* the marker holds a version tag and the installed file is a complete
\* download from a release with another tag
MarkerMismatch ==
    /\ fs[MarkerPath].kind = "text"
    /\ fs[InstalledFile].kind = "bin"
    /\ fs[InstalledFile].complete
    /\ fs[InstalledFile].url[1] # trim(fs[MarkerPath].text)

\* no crash, no partly written download and no failed marker write so far
NoFailedWrite == ~past.dirty /\ ~past.unrecorded

\* C20: the writes of an install are not protected against a second
\* instance.  While one instance is between its download and its marker
\* write, the download step and the marker-write step of the other instance
\* can be taken; and a marker that disagrees with the installed file, with
\* every write having succeeded and no call in progress, is the outcome of
\* two instances that both installed.  Such a state is reachable
\* (C20_Witness).
C20_WritesUnprotected ==
    /\ \A p \in Procs : \A q \in Procs \ {p} :
          /\ (pc[p] = "marker" /\ pc[q] = "download") => ENABLED DownloadFile(q)
          /\ (pc[p] = "marker" /\ pc[q] = "marker") => ENABLED WriteMarker(q)
    /\ (AtRest /\ NoFailedWrite /\ MarkerMismatch)
       => \A p \in Procs : hist[p].branch = "installed"

\* both instances have installed, every step of both succeeded, and the
\* marker records the release of one while the binary on disk is the
\* download of the other
C20_Witness ==
    /\ AtRest
    /\ NoFailedWrite
    /\ MarkerMismatch
    /\ \A p \in Procs : hist[p].branch = "installed" /\ command[p].ok
    /\ \E p \in Procs : \E q \in Procs \ {p} :
          /\ fs[MarkerPath] = TextFile(loc[p].release.version)
          /\ fs[InstalledFile] = Binary(loc[q].asset.download_url, TRUE)
          /\ loc[p].release.version # loc[q].release.version

\* the contrast to C20: with one instance calling one call after the other,
\* whenever no call is in progress and no write has failed, the marker
\* agrees with the installed file
C20_SequentialAgreement == ~(AtRest /\ NoFailedWrite /\ MarkerMismatch)

====
